---- MODULE Spec2Model ----
(***************************************************************************)
(* Model of camera_calibration_lib: chessboard_pose_estimation (one camera, *)
(* one chessboard pose) and extrinsic_calibration (a list of cameras, the   *)
(* transform of every camera with respect to the first).                    *)
(*                                                                          *)
(* numpy's floating point arrays are modelled by matrices of exact          *)
(* rationals <<numerator, denominator>>, so np.mean, np.matmul and          *)
(* np.linalg.inv are the exact operations they approximate.  What OpenCV    *)
(* computes from a frame (findChessboardCorners, cornerSubPix, solvePnP,    *)
(* Rodrigues) is an input: the camera delivers a frame that either shows    *)
(* no pattern, or a pattern whose PnP solve fails, or a pattern whose solve *)
(* gives one of a few poses.                                                *)
(***************************************************************************)
EXTENDS Integers, Sequences, FiniteSets, TLC

\* ------------------------------------------------------------------ bounds
\* longest camera list passed to extrinsic_calibration
MaxCams == 3
\* largest value of the parameter loops
MaxLoops == 2
\* most pose estimations of one run (len(cameras) * loops)
MaxSamples == 6
\* most frames without a solved pose a camera delivers within one estimation
MaxRetries == 2

\* range(10) of the warm-up loop
WarmupFrames == 10

\* no exception
None == "None"

\* --------------------------------------------------------------- rationals
RECURSIVE Gcd(_, _)
Gcd(a, b) == IF b = 0 THEN a ELSE Gcd(b, a % b)

Abs(a) == IF a < 0 THEN -a ELSE a

\* the rational n/d in lowest terms with a positive denominator (d # 0)
Rat(n, d) ==
    LET g == Gcd(Abs(n), Abs(d))
        s == IF d < 0 THEN -1 ELSE 1
    IN  <<(s * n) \div g, (s * d) \div g>>

Zero == <<0, 1>>
One == <<1, 1>>
RAdd(x, y) == Rat(x[1] * y[2] + y[1] * x[2], x[2] * y[2])
RNeg(x) == <<-x[1], x[2]>>
RMul(x, y) == Rat(x[1] * y[1], x[2] * y[2])
RDiv(x, y) == Rat(x[1] * y[2], x[2] * y[1])

RECURSIVE RSum(_)
RSum(s) == IF s = <<>> THEN Zero ELSE RAdd(Head(s), RSum(Tail(s)))

\* ---------------------------------------------------------------- matrices
\* a matrix is a sequence of rows, a row a sequence of rationals
Rows(m) == Len(m)
Cols(m) == Len(m[1])

\* the matrix with the entries of m, every entry computed once (TLC would
\* otherwise compute an entry anew at each use)
Vec(row) == row \o <<>>
Mat(m) == Vec([r \in 1..Len(m) |-> Vec(m[r])])

\* np.eye(n)
Eye(n) == Mat([r \in 1..n |-> [c \in 1..n |-> IF r = c THEN One ELSE Zero]])

\* np.matmul(a, b)
MatMul(a, b) ==
    Mat([r \in 1..Rows(a) |-> [c \in 1..Cols(b) |->
        RSum(Vec([x \in 1..Cols(a) |-> RMul(a[r][x], b[x][c])]))]])

\* the matrix m without row r0 and column c0
Minor(m, r0, c0) ==
    Mat([r \in 1..(Rows(m) - 1) |-> [c \in 1..(Cols(m) - 1) |->
        m[IF r < r0 THEN r ELSE r + 1][IF c < c0 THEN c ELSE c + 1]]])

Sign(n) == IF n % 2 = 0 THEN One ELSE RNeg(One)

\* np.linalg.det(m), by expansion along the first row
RECURSIVE Det(_)
Det(m) ==
    IF Rows(m) = 1 THEN m[1][1]
    ELSE RSum(Vec([c \in 1..Cols(m) |->
            RMul(RMul(Sign(1 + c), m[1][c]), Det(Minor(m, 1, c)))]))

\* np.linalg.inv(m) of a matrix with a nonzero determinant: the adjugate
\* divided by the determinant
Inv(m) ==
    LET d == Det(m)
    IN  Mat([r \in 1..Rows(m) |-> [c \in 1..Cols(m) |->
            RDiv(RMul(Sign(r + c), Det(Minor(m, c, r))), d)]])

\* np.linalg.inv raises LinAlgError("Singular matrix") on a singular matrix
Singular(m) == Det(m) = Zero

\* np.mean(np.array(ms), 0): the element-wise mean of a sequence of matrices
Mean(ms) ==
    Mat([r \in 1..Rows(ms[1]) |-> [c \in 1..Cols(ms[1]) |->
        RDiv(RSum(Vec([x \in 1..Len(ms) |-> ms[x][r][c]])), <<Len(ms), 1>>)]])

\* ------------------------------------------------------------------- poses
\* a matrix of integers
IntMat(m) == Mat([r \in 1..Len(m) |-> [c \in 1..Len(m[r]) |-> <<m[r][c], 1>>]])

\* what solvePnP and Rodrigues give for a frame: a proper rotation and a
\* translation (3x1).  Three poses: the board straight ahead, turned by a
\* quarter and by a half turn about the optical axis.
Poses ==
    << [rot   |-> IntMat(<<<<1, 0, 0>>, <<0, 1, 0>>, <<0, 0, 1>>>>),
        trasl |-> IntMat(<<<<0>>, <<0>>, <<1>>>>)],
       [rot   |-> IntMat(<<<<0, -1, 0>>, <<1, 0, 0>>, <<0, 0, 1>>>>),
        trasl |-> IntMat(<<<<1>>, <<0>>, <<1>>>>)],
       [rot   |-> IntMat(<<<<-1, 0, 0>>, <<0, -1, 0>>, <<0, 0, 1>>>>),
        trasl |-> IntMat(<<<<0>>, <<1>>, <<2>>>>)] >>
PoseIds == DOMAIN Poses
Pose(p) == Poses[p]

\* ------------------------------------------------------------------ frames
\* One frame as OpenCV reads it: no chessboard found ("nopattern"), corners
\* found but solvePnP reports failure ("pnpfail"; rot_vec and trasl_vec are
\* what the solver left, here the half turn), corners found and the pose
\* solved ("solved").  "raise" stands for a get_rgb call that raises instead
\* of delivering.
NoPattern == [kind |-> "nopattern", pose |-> 0]
DeviceRaise == [kind |-> "raise", pose |-> 0]
Frames ==
    {NoPattern, DeviceRaise}
        \cup [kind : {"pnpfail"}, pose : {3}]
        \cup [kind : {"solved"}, pose : PoseIds]

Unsolved(f) == f.kind \in {"nopattern", "pnpfail"}

VARIABLES
    cameras,               \* the list of cameras (their numbers, 1..n)
    loops,                 \* parameter loops
    display_frame,         \* parameter display_frame
    pc,                    \* where extrinsic_calibration stands
    err,                   \* the exception it raised, or None
    camera,                \* warm-up loop: index of the camera
    i,                     \* warm-up loop: frames discarded for it so far
    cam_number,            \* sampling loop: number of the camera
    k,                     \* sampling loop: samples taken for it so far
    rots,                  \* rotation matrices of the samples
    trasls,                \* translation vectors of the samples
    homogeneous_matrices,  \* one 4x4 matrix per camera done
    cam1_H_camX,           \* the transforms with respect to the first camera
    result,                \* what the call returned, if it has
    est,                   \* run -> the frame of chessboard_pose_estimation
    tape,                  \* frames the camera delivered to this estimation
    lastCall,              \* the last get_rgb / get_intrinsics call
    discarded,             \* camera -> frames captured by the warm-up loop
    estCalls,              \* cameras of the chessboard_pose_estimation calls
    samples                \* camera -> pose ids its estimations solved

orchVars ==
    <<cameras, loops, display_frame, pc, err, camera, i, cam_number, k, rots,
      trasls, homogeneous_matrices, cam1_H_camX, result, discarded, estCalls,
      samples>>
vars == <<orchVars, est, tape, lastCall>>

Call(c, op, outcome) == [cam |-> c, op |-> op, outcome |-> outcome]
\* no call on any camera yet
NoCall == Call(0, "none", "none")

\* the call has not returned / has returned the list value
NoResult == [returned |-> FALSE, value |-> <<>>]
Return(value) == [returned |-> TRUE, value |-> value]

\* a local that is not bound yet
Unbound == <<>>

\* ------------------------------------------- chessboard_pose_estimation
\* the frame of a call that has not started or has been returned from;
\* the window 'img' belongs to the process and outlives the call
Idle(window) ==
    [pc |-> "idle", camera |-> 0, display_frame |-> FALSE, window |-> window,
     pose_found |-> FALSE, rot_matrix |-> Unbound, trasl_vec |-> Unbound,
     nframes |-> 0]

\* the call chessboard_pose_estimation(camera, ..., display_frame)
Enter(c, display, window) ==
    [pc |-> "intrinsics", camera |-> c, display_frame |-> display,
     window |-> window, pose_found |-> FALSE, rot_matrix |-> Unbound,
     trasl_vec |-> Unbound, nframes |-> 0]

\* while not pose_found
LoopTest(pose_found) == IF pose_found THEN "returned" ELSE "capture"

\* camera.get_intrinsics() returns; objp and mtx are built, the window is
\* named when display_frame is set, pose_found = False
EstIntrinsics(r) ==
    /\ est[r].pc = "intrinsics"
    /\ est' = [est EXCEPT ![r].pc = "capture",
                          ![r].window = IF est[r].display_frame THEN TRUE ELSE @,
                          ![r].pose_found = FALSE]
    /\ lastCall' = Call(est[r].camera, "get_intrinsics", "ok")
    /\ UNCHANGED <<orchVars, tape>>

\* camera.get_intrinsics() raises
EstIntrinsicsRaise(r) ==
    /\ est[r].pc = "intrinsics"
    /\ est' = [est EXCEPT ![r].pc = "raised"]
    /\ lastCall' = Call(est[r].camera, "get_intrinsics", "raise")
    /\ UNCHANGED <<orchVars, tape>>

\* the camera delivers frame f to run r: the next frame of the tape, or a new
\* one (at most MaxRetries unsolved frames in one estimation)
Delivers(r, f) ==
    IF est[r].nframes < Len(tape)
    THEN f = tape[est[r].nframes + 1] /\ tape' = tape
    ELSE /\ Unsolved(f) => Len(tape) < MaxRetries
         /\ tape' = Append(tape, f)

\* Process with the flag solvePnP returns ignored: a pose counts as found as
\* soon as the corners are
Process_IgnoresRetval(e, f) ==
    IF f.kind \in {"pnpfail", "solved"}
    THEN [e EXCEPT !.pose_found = TRUE,
                   !.rot_matrix = Pose(f.pose).rot,
                   !.trasl_vec = Pose(f.pose).trasl,
                   !.nframes = @ + 1]
    ELSE [e EXCEPT !.nframes = @ + 1]

\* what one pass of the loop body does to the frame of the call, up to the
\* display branch: lines 61 to 73
Process(e, f) ==
    LET chessboard_found == f.kind \in {"pnpfail", "solved"}
    IN  IF chessboard_found
        THEN [e EXCEPT !.pose_found = (f.kind = "solved"),
                       !.rot_matrix = Pose(f.pose).rot,
                       !.trasl_vec = Pose(f.pose).trasl,
                       !.nframes = @ + 1]
        ELSE [e EXCEPT !.nframes = @ + 1]

\* img = camera.get_rgb() returns and the frame is processed
EstCapture(r) ==
    /\ est[r].pc = "capture"
    /\ \E f \in Frames :
        /\ f.kind # "raise"
        /\ Delivers(r, f)
        /\ LET e == Process(est[r], f)
           IN  est' = [est EXCEPT ![r] =
                    [e EXCEPT !.pc = IF e.display_frame THEN "show"
                                     ELSE LoopTest(e.pose_found)]]
    /\ lastCall' = Call(est[r].camera, "get_rgb", "ok")
    /\ UNCHANGED orchVars

\* img = camera.get_rgb() raises
EstCaptureRaise(r) ==
    /\ est[r].pc = "capture"
    /\ Delivers(r, DeviceRaise)
    /\ est' = [est EXCEPT ![r].pc = "raised", ![r].nframes = @ + 1]
    /\ lastCall' = Call(est[r].camera, "get_rgb", "raise")
    /\ UNCHANGED orchVars

Keys == {"q", "other"}

\* Show with a 'q' that also leaves the loop
Show_QuitBreaks(e, key) ==
    [e EXCEPT !.window = (key # "q"),
              !.pc = IF key = "q" THEN "returned" ELSE LoopTest(e.pose_found)]

\* the display branch, lines 78 to 91: the axes are drawn when pose_found,
\* imshow shows the frame (creating the window if need be), and a 'q' read by
\* waitKey destroys the windows; then the loop test
Show(e, key) ==
    [e EXCEPT !.window = (key # "q"),
              !.pc = LoopTest(e.pose_found)]

EstShow(r) ==
    /\ est[r].pc = "show"
    /\ \E key \in Keys : est' = [est EXCEPT ![r] = Show(est[r], key)]
    /\ UNCHANGED <<orchVars, tape, lastCall>>

\* ------------------------------------------------- extrinsic_calibration
\* the assertion written assert(cond, message): a tuple, which always holds
AssertHolds_Tuple(cams) == TRUE

\* assert(len(cameras) >= 2 and "You must pass ...")
AssertHolds(cams) == Len(cams) >= 2

Assert_ ==
    /\ pc = "assert"
    /\ IF AssertHolds(cameras)
       THEN pc' = "warmup" /\ err' = err
       ELSE pc' = "raised" /\ err' = "AssertionError"
    /\ UNCHANGED <<cameras, loops, display_frame, camera, i, cam_number, k,
                   rots, trasls, homogeneous_matrices, cam1_H_camX, result,
                   discarded, estCalls, samples, est, tape, lastCall>>

\* WarmupAfter with only the first camera warmed up
WarmupAfter_FirstOnly(c, j) ==
    IF j < WarmupFrames THEN <<c, j, "warmup">> ELSE <<c, j, "sample">>

\* where the program stands after a warm-up capture of camera c, the j-th
WarmupAfter(c, j) ==
    IF j < WarmupFrames THEN <<c, j, "warmup">>
    ELSE IF c < Len(cameras) THEN <<c + 1, 0, "warmup">>
    ELSE <<c, j, "sample">>

\* camera.get_rgb() of the warm-up loop returns; the frame is dropped
Warmup ==
    /\ pc = "warmup"
    /\ camera <= Len(cameras)
    /\ LET nxt == WarmupAfter(camera, i + 1)
       IN  camera' = nxt[1] /\ i' = nxt[2] /\ pc' = nxt[3]
    /\ discarded' = [discarded EXCEPT ![camera] = @ + 1]
    /\ lastCall' = Call(cameras[camera], "get_rgb", "ok")
    /\ UNCHANGED <<cameras, loops, display_frame, err, cam_number, k, rots,
                   trasls, homogeneous_matrices, cam1_H_camX, result,
                   estCalls, samples, est, tape>>

\* camera.get_rgb() of the warm-up loop raises
WarmupRaise ==
    /\ pc = "warmup"
    /\ camera <= Len(cameras)
    /\ pc' = "raised"
    /\ err' = "DeviceFailure"
    /\ lastCall' = Call(cameras[camera], "get_rgb", "raise")
    /\ UNCHANGED <<cameras, loops, display_frame, camera, i, cam_number, k,
                   rots, trasls, homogeneous_matrices, cam1_H_camX, result,
                   discarded, estCalls, samples, est, tape>>

\* FreshList with the lists created once, before the loop over the cameras
FreshList_Never(list) == list

\* rots = [] and trasls = [] before the first sample of a camera (loops # 1)
FreshList(list) == IF loops # 1 /\ k = 0 THEN <<>> ELSE list

\* the call chessboard_pose_estimation(camera, chess_size, ..., display_frame)
CallEstimator ==
    /\ pc = "sample"
    /\ pc' = "estimating"
    /\ rots' = FreshList(rots)
    /\ trasls' = FreshList(trasls)
    /\ est' = [est EXCEPT ![1] =
                 Enter(cameras[cam_number], display_frame, est[1].window)]
    /\ tape' = <<>>
    /\ estCalls' = Append(estCalls, cameras[cam_number])
    /\ UNCHANGED <<cameras, loops, display_frame, err, camera, i, cam_number,
                   k, homogeneous_matrices, cam1_H_camX, result, discarded,
                   samples, lastCall>>

\* hom_mat = np.eye(4); hom_mat[:3, :3] = rot_mat; hom_mat[:3, 3:] = trasl_vec
Eye4 == Eye(4)
HomMat(rot_mat, trasl_vec) ==
    Mat([r \in 1..4 |-> [c \in 1..4 |->
        IF r <= 3 /\ c <= 3 THEN rot_mat[r][c]
        ELSE IF r <= 3 THEN trasl_vec[r][1]
        ELSE Eye4[r][c]]])

\* LastSample with range(loops + 1)
LastSample_OneMore(j) == loops = 1 \/ j >= loops + 1

\* range(loops): whether sample number j (from 1) was the last of the camera
LastSample(j) == loops = 1 \/ j >= loops

\* chessboard_pose_estimation returns (rot_matrix, trasl_vec): the sample is
\* kept; after the last sample of the camera its pose is the sample itself
\* (loops == 1) or the mean of the samples, and its matrix is appended
Collect ==
    /\ pc = "estimating"
    /\ est[1].pc = "returned"
    /\ LET rs == IF loops = 1 THEN rots ELSE Append(rots, est[1].rot_matrix)
           ts == IF loops = 1 THEN trasls ELSE Append(trasls, est[1].trasl_vec)
           rot_mat == IF loops = 1 THEN est[1].rot_matrix ELSE Mean(rs)
           trasl_vec == IF loops = 1 THEN est[1].trasl_vec ELSE Mean(ts)
       IN  /\ rots' = rs
           /\ trasls' = ts
           /\ IF LastSample(k + 1)
              THEN /\ homogeneous_matrices' =
                        Append(homogeneous_matrices, HomMat(rot_mat, trasl_vec))
                   /\ cam_number' = cam_number + 1
                   /\ k' = 0
                   /\ pc' = IF cam_number < Len(cameras) THEN "sample"
                            ELSE "relative"
              ELSE /\ k' = k + 1
                   /\ pc' = "sample"
                   /\ UNCHANGED <<homogeneous_matrices, cam_number>>
    /\ samples' = [samples EXCEPT ![cam_number] =
                        Append(@, tape[Len(tape)].pose)]
    /\ est' = [est EXCEPT ![1] = Idle(est[1].window)]
    /\ tape' = <<>>
    /\ UNCHANGED <<cameras, loops, display_frame, err, camera, i, cam1_H_camX,
                   result, discarded, estCalls, lastCall>>

\* Propagate with the exception caught and the estimation called again
Propagate_Retry ==
    /\ pc = "estimating"
    /\ est[1].pc = "raised"
    /\ pc' = "sample"
    /\ UNCHANGED <<cameras, loops, display_frame, err, camera, i, cam_number,
                   k, rots, trasls, homogeneous_matrices, cam1_H_camX, result,
                   discarded, estCalls, samples, est, tape, lastCall>>

\* chessboard_pose_estimation raised: nothing catches it
Propagate ==
    /\ pc = "estimating"
    /\ est[1].pc = "raised"
    /\ pc' = "raised"
    /\ err' = "DeviceFailure"
    /\ UNCHANGED <<cameras, loops, display_frame, camera, i, cam_number, k,
                   rots, trasls, homogeneous_matrices, cam1_H_camX, result,
                   discarded, estCalls, samples, est, tape, lastCall>>

\* RelativeAll with the factors of the product exchanged
RelativeAll_Swapped(hs) ==
    Vec([x \in 1..Len(hs) |-> MatMul(Inv(hs[x]), hs[1])])

\* cam1_H_camX: for every hom_mat, np.matmul(H_ref, np.linalg.inv(hom_mat))
RelativeAll(hs) == Vec([x \in 1..Len(hs) |-> MatMul(hs[1], Inv(hs[x]))])

\* Returned with the whole list, the reference camera's entry included
Returned_All(list) == list

\* return cam1_H_camX[1:]
Returned(list) == Tail(list)

\* lines 56 to 63; np.linalg.inv raises on a singular matrix
Relative ==
    /\ pc = "relative"
    /\ IF \E x \in 1..Len(homogeneous_matrices) :
                    Singular(homogeneous_matrices[x])
       THEN pc' = "raised" /\ err' = "LinAlgError"
            /\ UNCHANGED <<cam1_H_camX, result>>
       ELSE /\ cam1_H_camX' = RelativeAll(homogeneous_matrices)
            /\ result' = Return(Returned(cam1_H_camX'))
            /\ pc' = "done"
            /\ err' = err
    /\ UNCHANGED <<cameras, loops, display_frame, camera, i, cam_number, k,
                   rots, trasls, homogeneous_matrices, discarded, estCalls,
                   samples, est, tape, lastCall>>

\* ---------------------------------------------------------- specifications
\* a call extrinsic_calibration(cameras, chess_size, chess_square_size,
\* loops, display_frame) with 0..MaxCams cameras and loops >= 1
Init ==
    /\ \E n \in 0..MaxCams : cameras = [c \in 1..n |-> c]
    /\ loops \in 1..MaxLoops
    /\ Len(cameras) * loops <= MaxSamples
    /\ display_frame \in BOOLEAN
    /\ pc = "assert"
    /\ err = None
    /\ camera = 1
    /\ i = 0
    /\ cam_number = 1
    /\ k = 0
    /\ rots = <<>>
    /\ trasls = <<>>
    /\ homogeneous_matrices = <<>>
    /\ cam1_H_camX = <<>>
    /\ result = NoResult
    /\ est = [r \in {1} |-> Idle(FALSE)]
    /\ tape = <<>>
    /\ lastCall = NoCall
    /\ discarded = [c \in 1..Len(cameras) |-> 0]
    /\ estCalls = <<>>
    /\ samples = [c \in 1..Len(cameras) |-> <<>>]

Next ==
    \/ Assert_
    \/ Warmup
    \/ WarmupRaise
    \/ CallEstimator
    \/ EstIntrinsics(1)
    \/ EstIntrinsicsRaise(1)
    \/ EstCapture(1)
    \/ EstCaptureRaise(1)
    \/ EstShow(1)
    \/ Collect
    \/ Propagate
    \/ Relative

Spec == Init /\ [][Next]_vars

\* Two calls of chessboard_pose_estimation on the same camera, run 1 with
\* display_frame = True and run 2 with display_frame = False, each in a
\* process of its own; the camera delivers both the same frames (the tape).
PairInit ==
    /\ cameras = <<1>>
    /\ loops = 1
    /\ display_frame = FALSE
    /\ pc = "none"
    /\ err = None
    /\ camera = 1
    /\ i = 0
    /\ cam_number = 1
    /\ k = 0
    /\ rots = <<>>
    /\ trasls = <<>>
    /\ homogeneous_matrices = <<>>
    /\ cam1_H_camX = <<>>
    /\ result = NoResult
    /\ est = [r \in {1, 2} |-> Enter(1, r = 1, FALSE)]
    /\ tape = <<>>
    /\ lastCall = NoCall
    /\ discarded = <<0>>
    /\ estCalls = <<>>
    /\ samples = <<<<>>>>

PairNext ==
    \E r \in {1, 2} :
        \/ EstIntrinsics(r)
        \/ EstCapture(r)
        \/ EstCaptureRaise(r)
        \/ EstShow(r)

SpecPair == PairInit /\ [][PairNext]_vars

\* ------------------------------------------------------------------ claims
\* what the claims read off a state
NCams == Len(cameras)
Raised == lastCall.outcome = "raise"
Count(c) == Cardinality({x \in 1..Len(estCalls) : estCalls[x] = c})
Swap(s, a, b) == [s EXCEPT ![a] = s[b], ![b] = s[a]]
\* entry (r, c) of the 3x4 block [R | t] of pose p
PoseEntry(p, r, c) ==
    IF c <= 3 THEN Pose(p).rot[r][c] ELSE Pose(p).trasl[r][1]
RotBlock(h) == Mat([r \in 1..3 |-> [c \in 1..3 |-> h[r][c]]])
Transpose(m) == Mat([r \in 1..Cols(m) |-> [c \in 1..Rows(m) |-> m[c][r]]])
ProperRotation(m) == Det(m) = One /\ MatMul(Transpose(m), m) = Eye(3)

\* C1: a call with fewer than 2 cameras ends in the assertion's error, and
\* no get_rgb or get_intrinsics call has been made on any camera.
C1_TooFewCamerasFail ==
    NCams < 2 =>
        /\ pc \in {"assert", "raised"}
        /\ pc = "raised" => err = "AssertionError"
        /\ lastCall = NoCall
        /\ estCalls = <<>>
        /\ \A c \in 1..NCams : discarded[c] = 0
        /\ ~result.returned

C1_Witness ==
    NCams = 1 /\ pc = "raised" /\ err = "AssertionError" /\ lastCall = NoCall

\* C2: entry x of the returned list is H_ref * inverse(H_X) for the matrices
\* assembled for cameras[0] and cameras[x]: it is the one matrix that,
\* multiplied by H_X, gives H_ref.  The reference camera's own product, the
\* identity, is computed (first in cam1_H_camX) and is not returned.
C2_RelativeToReference ==
    pc = "done" =>
        /\ result.returned
        /\ Len(cam1_H_camX) = NCams
        /\ cam1_H_camX[1] = Eye4
        /\ Len(result.value) = NCams - 1
        /\ \A x \in 1..(NCams - 1) :
            /\ result.value[x] = cam1_H_camX[x + 1]
            /\ MatMul(result.value[x], homogeneous_matrices[x + 1])
                    = homogeneous_matrices[1]

C2_Witness ==
    /\ pc = "done"
    /\ NCams = 3
    /\ loops = 2
    /\ result.value[1] # Eye4
    /\ result.value[2] # result.value[1]
    /\ ~ProperRotation(RotBlock(homogeneous_matrices[3]))

\* C3: the returned list has len(cameras) - 1 entries, the x-th for
\* cameras[x]; with two cameras other than the reference exchanged in the
\* input (each camera giving the matrix it gave), the two entries of the
\* result are exchanged and every value is the same.
C3_OrderMirrorsInput ==
    pc = "done" =>
        /\ Len(result.value) = NCams - 1
        /\ \A x \in 1..(NCams - 1) : result.value[x] = cam1_H_camX[x + 1]
        /\ \A a, b \in 2..NCams :
            Returned(RelativeAll(Swap(homogeneous_matrices, a, b)))
                = Swap(result.value, a - 1, b - 1)

C3_Witness ==
    /\ pc = "done"
    /\ NCams = 3
    /\ result.value[1] # result.value[2]

\* a call that has returned: the last frame it captured was solved, every
\* frame before it was not, and the pose returned is that frame's
C4_ReturnedState ==
    \A r \in DOMAIN est :
        est[r].pc = "returned" =>
            /\ est[r].nframes >= 1
            /\ tape[est[r].nframes].kind = "solved"
            /\ \A x \in 1..(est[r].nframes - 1) : Unsolved(tape[x])
            /\ est[r].rot_matrix = Pose(tape[est[r].nframes].pose).rot
            /\ est[r].trasl_vec = Pose(tape[est[r].nframes].pose).trasl

\* a step of the loop: after a frame that is not solved the next capture,
\* after a solved one the return, whatever key the display branch reads
C4_LoopStep ==
    \A r \in DOMAIN est :
        (/\ est[r].pc \in {"capture", "show"}
         /\ est'[r] # est[r]
         /\ est'[r].pc # "raised")
        => \/ est[r].pc = "capture" /\ est'[r].pc = "show"
           \/ est'[r].pc = IF tape'[est'[r].nframes].kind = "solved"
                           THEN "returned" ELSE "capture"

\* C4: chessboard_pose_estimation returns only right after a captured frame
\* whose corners were found and whose PnP solve succeeded; every frame
\* without a pattern or with a failed solve is followed by another capture,
\* a solved one by the return, and the 'q' key does not end the loop.
C4_ReturnsOnlyOnSolve == [](C4_ReturnedState) /\ [][C4_LoopStep]_vars

C4_Witness ==
    /\ est[1].pc = "returned"
    /\ est[1].nframes = 3
    /\ tape[1].kind = "nopattern"
    /\ tape[2].kind = "pnpfail"
    /\ est[1].display_frame
    /\ ~est[1].window

\* C5: every matrix assembled for a camera has a proper rotation as its
\* rotation block and is invertible, and the inversion never fails.
C5_EveryTransformRigid ==
    /\ err # "LinAlgError"
    /\ \A x \in 1..Len(homogeneous_matrices) :
        /\ ~Singular(homogeneous_matrices[x])
        /\ ProperRotation(RotBlock(homogeneous_matrices[x]))

\* the inversion of line 59 never raises (it does: the mean of the identity
\* and the half turn is singular)
C5_InversionNeverFails == err # "LinAlgError"

\* C6: the matrix of a camera is built from the element-wise mean of the
\* rotations and of the translations of the loops samples solved for that
\* camera, and of no other; with loops = 1 it is the one sample itself.
C6_AggregateIsOwnMean ==
    \A x \in 1..Len(homogeneous_matrices) :
        /\ Len(samples[x]) = loops
        /\ homogeneous_matrices[x][4] = Eye4[4]
        /\ \A r \in 1..3, c \in 1..4 :
            RMul(<<loops, 1>>, homogeneous_matrices[x][r][c])
                = RSum(Vec([n \in 1..loops |-> PoseEntry(samples[x][n], r, c)]))
        /\ loops = 1 =>
            homogeneous_matrices[x]
                = HomMat(Pose(samples[x][1]).rot, Pose(samples[x][1]).trasl)

C6_Witness ==
    /\ Len(homogeneous_matrices) = 2
    /\ loops = 2
    /\ samples[1] = <<1, 1>>
    /\ samples[2] = <<2, 3>>

\* C7: when the first pose estimation is called, the warm-up loop has
\* captured (and dropped) at least 10 frames of every camera of the list.
C7_WarmupBeforeSampling ==
    (pc = "estimating" \/ estCalls # <<>> \/ lastCall.op = "get_intrinsics")
        => \A c \in 1..NCams : discarded[c] >= 10

C7_Witness ==
    /\ NCams = 3
    /\ Len(estCalls) = 1
    /\ est[1].pc = "intrinsics"

\* C8: the estimations are called camera after camera in list order, never
\* going back, each call made after the one before it has returned, at most
\* loops per camera, and exactly loops per camera in a run that returns.
C8_SampledInListOrder ==
    /\ \A a, b \in 1..Len(estCalls) : a <= b => estCalls[a] <= estCalls[b]
    /\ \A c \in 1..NCams : Count(c) <= loops
    /\ pc \in {"sample", "relative", "done"} =>
            \A c \in 1..NCams : Len(samples[c]) = Count(c)
    /\ pc = "done" => \A c \in 1..NCams : Count(c) = loops

C8_Witness ==
    /\ pc = "done"
    /\ NCams = 3
    /\ loops = 2
    /\ Len(estCalls) = 6

\* a call has raised: the exception is on its way out or has left
\* extrinsic_calibration, and nothing has been returned
C9_RaisedState ==
    Raised =>
        /\ ~result.returned
        /\ \/ pc = "raised" /\ err = "DeviceFailure"
           \/ pc = "estimating" /\ est[1].pc = "raised"

\* the only step after a raising call is the exception leaving; no camera
\* is called, no frame captured, nothing returned
C9_RaisedStep ==
    Raised =>
        /\ lastCall' = lastCall
        /\ discarded' = discarded
        /\ estCalls' = estCalls
        /\ tape' = tape
        /\ est'[1].nframes = est[1].nframes
        /\ result' = result
        /\ pc' = "raised"

\* C9: after a get_rgb or get_intrinsics call has raised, the run ends with
\* that exception: no call is made on any camera any more, the failing call
\* included, and nothing is returned.
C9_FailurePropagates == [](C9_RaisedState) /\ [][C9_RaisedStep]_vars

C9_Witness ==
    /\ Raised
    /\ pc = "raised"
    /\ lastCall.op = "get_intrinsics"
    /\ lastCall.cam = 2
    /\ Len(homogeneous_matrices) = 1
    /\ ~result.returned

\* run r has returned or raised
C10_Ended(r) == est[r].pc \in {"returned", "raised"}

\* C10: on the same frames, the run with display_frame = True and the run
\* with display_frame = False end the same way after the same number of
\* captures and with the same rotation and translation; neither captures a
\* frame past the one the other ended on.

C10_DisplayDoesNotInterfere ==
    /\ est[1].display_frame /\ ~est[2].display_frame
    /\ (C10_Ended(1) /\ C10_Ended(2)) =>
            /\ est[1].pc = est[2].pc
            /\ est[1].nframes = est[2].nframes
            /\ est[1].rot_matrix = est[2].rot_matrix
            /\ est[1].trasl_vec = est[2].trasl_vec
    /\ C10_Ended(1) => est[2].nframes <= est[1].nframes
    /\ C10_Ended(2) => est[1].nframes <= est[2].nframes
    /\ est[1].nframes = est[2].nframes =>
            est[1].pose_found = est[2].pose_found

C10_Witness ==
    /\ est[1].pc = "returned"
    /\ est[2].pc = "returned"
    /\ est[1].nframes = 3
    /\ ~est[1].window
====
